---- MODULE Spec2Model ----
(***************************************************************************)
(* State-machine model of the lending contract in src/src/lending.rs.      *)
(*                                                                         *)
(* Storage is the three cw-storage-plus containers CONFIG, LOANS and       *)
(* COLLATERALS.  A Map is a function whose domain is the set of keys that  *)
(* have a record.  Uint128 is scaled down to UintBits bits; a Decimal is    *)
(* represented by its number of whole percents (Decimal::percent(n) is n). *)
(* One action of the model is one call of the contract: the message is     *)
(* dispatched, the handler runs to its return, and the response is kept in *)
(* the variable last.                                                      *)
(***************************************************************************)
EXTENDS Integers, Sequences, FiniteSets, TLC

\* ---------------------------------------------------------------- bounds
\* width of the unsigned integer type standing for Uint128
UintBits == 11
\* block times are 0..MaxTime
MaxTime == 1

RECURSIVE Pow2(_)
Pow2(n) == IF n = 0 THEN 1 ELSE 2 * Pow2(n - 1)

\* Uint128::MAX at the modelled width
UintMax == Pow2(UintBits) - 1

\* ---------------------------------------------------------------- inputs
Accounts == {"owner", "alice"}
Tokens == {"A", "B"}
Owners == {"owner"}
InitRates == {10}
Rates == {5, 10}
DepositAmounts == {0, 2}
WithdrawAmounts == {0, 1, 2}
BorrowAmounts == {0, 1000, UintMax}
RepayAmounts == {0, 1049, 1050, UintMax}
Times == 0..MaxTime

VARIABLES config, loans, collaterals, now, last
vars == <<config, loans, collaterals, now, last>>

\* ---------------------------------------------------------------- errors
\* StdError::generic_err(msg) is "generic_err: msg"; a failed Map::load is
\* StdError::NotFound; a Rust panic aborts the call.
InvalidAmount == "generic_err: Amount cannot be zero"
InvalidState == "generic_err: Insufficient collateral or mismatched token address"
InsufficientPayment == "generic_err: Repayment amount is not enough to cover the loan and interest"
Unauthorized == "generic_err: You have no permissions."
NotFound == "not_found"
AddOverflowPanic == "panic: attempt to add with overflow"
MulOverflowPanic == "panic: multiplication overflow"
UnknownVariant == "parse_err: unknown variant"
Panics == {AddOverflowPanic, MulOverflowPanic}

\* ---------------------------------------------------------------- records
Config(owner, rate) == [owner |-> owner, base_interest_rate |-> rate]
LoanInfo(amount, rate, time) ==
    [amount_borrowed |-> amount, interest_rate |-> rate, loan_start_time |-> time]
Collateral(token, amount) == [token_address |-> token, amount |-> amount]

\* the store of the contract: CONFIG, LOANS, COLLATERALS
Storage(c, l, k) == [config |-> c, loans |-> l, collaterals |-> k]

\* Map::save, Map::remove, Map::may_load(..).is_some()
\* variant: a save that keeps no other key of the map
MapSaveAlone(m, key, v) == [x \in {key} |-> v]
MapSave(m, key, v) == [x \in (DOMAIN m) \cup {key} |-> IF x = key THEN v ELSE m[x]]
MapRemove(m, key) == [x \in (DOMAIN m) \ {key} |-> m[x]]
MapHas(m, key) == key \in DOMAIN m

\* Response::new().add_attribute(..).add_message(..), and Err(e)
Ok(attrs, msgs) == [err |-> "", attrs |-> attrs, msgs |-> msgs]
Err(e) == [err |-> e, attrs |-> <<>>, msgs |-> <<>>]
IsOk(res) == res.err = ""

\* BankMsg::Send { to_address, amount: vec![coin(amount, "usdc")] }
BankSend(to, amount) == [to_address |-> to, amount |-> amount, denom |-> "usdc"]

\* the result of a handler: the store it leaves and the response it returns
Outcome(st, res) == [st |-> st, res |-> res]

\* ---------------------------------------------------------------- arithmetic
\* the result of an operation that panics when its value does not fit
Checked(fits, value) == [ok |-> fits, val |-> IF fits THEN value ELSE 0]

\* Uint128 + Uint128: the sum, or a panic when it exceeds Uint128::MAX
WrappingAdd(a, b) == [ok |-> TRUE, val |-> (a + b) % (UintMax + 1)]
Uint128Add(a, b) == Checked(a + b <= UintMax, a + b)

\* Uint128 * Decimal: the full-width product divided by the fractional unit,
\* truncated; a panic when the quotient exceeds Uint128::MAX
Uint128MulDecimal(a, rate) == Checked((a * rate) \div 100 <= UintMax, (a * rate) \div 100)

\* Decimal::percent
DecimalPercent(n) == n

\* ---------------------------------------------------------------- handlers
\* variant: the zero-amount check is missing
deposit_collateral_unchecked(st, sender, token_address, amount) ==
    Outcome(
      [st EXCEPT !.collaterals = MapSave(@, sender, Collateral(token_address, amount))],
      Ok(<< <<"action", "deposit_collateral">>, <<"amount", ToString(amount)>> >>, <<>>))

\* variant: a deposit tops up the stored amount instead of replacing it
deposit_collateral_accumulating(st, sender, token_address, amount) ==
    IF amount = 0
    THEN Outcome(st, Err(InvalidAmount))
    ELSE LET prior == IF MapHas(st.collaterals, sender)
                      THEN st.collaterals[sender].amount ELSE 0
         IN  Outcome(
               [st EXCEPT !.collaterals =
                  MapSave(@, sender, Collateral(token_address, prior + amount))],
               Ok(<< <<"action", "deposit_collateral">>, <<"amount", ToString(amount)>> >>, <<>>))

\* variant: a deposit creates a record only when the account has none
deposit_collateral_if_absent(st, sender, token_address, amount) ==
    IF amount = 0
    THEN Outcome(st, Err(InvalidAmount))
    ELSE Outcome(
           IF MapHas(st.collaterals, sender)
           THEN st
           ELSE [st EXCEPT !.collaterals =
                   MapSave(@, sender, Collateral(token_address, amount))],
           Ok(<< <<"action", "deposit_collateral">>, <<"amount", ToString(amount)>> >>, <<>>))

deposit_collateral(st, sender, token_address, amount) ==
    IF amount = 0
    THEN Outcome(st, Err(InvalidAmount))
    ELSE Outcome(
           [st EXCEPT !.collaterals = MapSave(@, sender, Collateral(token_address, amount))],
           Ok(<< <<"action", "deposit_collateral">>, <<"amount", ToString(amount)>> >>, <<>>))

\* variant: a full withdrawal saves the emptied record instead of removing it
withdraw_collateral_keeping(st, sender, token_address, amount) ==
    IF ~MapHas(st.collaterals, sender)
    THEN Outcome(st, Err(NotFound))
    ELSE LET collateral == st.collaterals[sender] IN
         IF collateral.token_address # token_address \/ collateral.amount < amount
         THEN Outcome(st, Err(InvalidState))
         ELSE Outcome(
                [st EXCEPT !.collaterals =
                   MapSave(@, sender,
                           Collateral(collateral.token_address, collateral.amount - amount))],
                Ok(<< <<"action", "withdraw_collateral">>,
                      <<"amount", ToString(amount)>>,
                      <<"token_address", token_address>> >>, <<>>))

\* variant: the rejection needs both a token mismatch and a shortfall
withdraw_collateral_both(st, sender, token_address, amount) ==
    IF ~MapHas(st.collaterals, sender)
    THEN Outcome(st, Err(NotFound))
    ELSE LET collateral == st.collaterals[sender] IN
         IF collateral.token_address # token_address /\ collateral.amount < amount
         THEN Outcome(st, Err(InvalidState))
         ELSE Outcome(
                IF collateral.amount <= amount
                THEN [st EXCEPT !.collaterals = MapRemove(@, sender)]
                ELSE [st EXCEPT !.collaterals =
                        MapSave(@, sender,
                                Collateral(collateral.token_address, collateral.amount - amount))],
                Ok(<< <<"action", "withdraw_collateral">>,
                      <<"amount", ToString(amount)>>,
                      <<"token_address", token_address>> >>, <<>>))

\* variant: a withdrawal of amount 0 is rejected, as a deposit of 0 is
withdraw_collateral_nonzero(st, sender, token_address, amount) ==
    IF amount = 0
    THEN Outcome(st, Err(InvalidAmount))
    ELSE IF ~MapHas(st.collaterals, sender)
    THEN Outcome(st, Err(NotFound))
    ELSE LET collateral == st.collaterals[sender] IN
         IF collateral.token_address # token_address \/ collateral.amount < amount
         THEN Outcome(st, Err(InvalidState))
         ELSE Outcome(
                IF collateral.amount = amount
                THEN [st EXCEPT !.collaterals = MapRemove(@, sender)]
                ELSE [st EXCEPT !.collaterals =
                        MapSave(@, sender,
                                Collateral(collateral.token_address, collateral.amount - amount))],
                Ok(<< <<"action", "withdraw_collateral">>,
                      <<"amount", ToString(amount)>>,
                      <<"token_address", token_address>> >>, <<>>))

\* variant: a withdrawal is refused while the account has a loan
withdraw_collateral_guarded(st, sender, token_address, amount) ==
    IF ~MapHas(st.collaterals, sender)
    THEN Outcome(st, Err(NotFound))
    ELSE LET collateral == st.collaterals[sender] IN
         IF \/ collateral.token_address # token_address
            \/ collateral.amount < amount
            \/ MapHas(st.loans, sender)
         THEN Outcome(st, Err(InvalidState))
         ELSE Outcome(
                IF collateral.amount = amount
                THEN [st EXCEPT !.collaterals = MapRemove(@, sender)]
                ELSE [st EXCEPT !.collaterals =
                        MapSave(@, sender,
                                Collateral(collateral.token_address, collateral.amount - amount))],
                Ok(<< <<"action", "withdraw_collateral">>,
                      <<"amount", ToString(amount)>>,
                      <<"token_address", token_address>> >>, <<>>))

withdraw_collateral(st, sender, token_address, amount) ==
    IF ~MapHas(st.collaterals, sender)
    THEN Outcome(st, Err(NotFound))
    ELSE LET collateral == st.collaterals[sender] IN
         IF collateral.token_address # token_address \/ collateral.amount < amount
         THEN Outcome(st, Err(InvalidState))
         ELSE Outcome(
                IF collateral.amount = amount
                THEN [st EXCEPT !.collaterals = MapRemove(@, sender)]
                ELSE [st EXCEPT !.collaterals =
                        MapSave(@, sender,
                                Collateral(collateral.token_address, collateral.amount - amount))],
                Ok(<< <<"action", "withdraw_collateral">>,
                      <<"amount", ToString(amount)>>,
                      <<"token_address", token_address>> >>, <<>>))

\* variant: the loan takes the configured base rate
borrow_at_base_rate(st, time, sender, amount) ==
    Outcome(
      [st EXCEPT !.loans =
         MapSave(@, sender, LoanInfo(amount, st.config.base_interest_rate, time))],
      Ok(<< <<"action", "borrow">>, <<"amount", ToString(amount)>> >>,
         << BankSend(sender, amount) >>))

borrow(st, time, sender, amount) ==
    Outcome(
      [st EXCEPT !.loans = MapSave(@, sender, LoanInfo(amount, DecimalPercent(5), time))],
      Ok(<< <<"action", "borrow">>, <<"amount", ToString(amount)>> >>,
         << BankSend(sender, amount) >>))

\* variant: a payment equal to the total due is rejected
repay_loan_strict(st, sender, amount) ==
    IF ~MapHas(st.loans, sender)
    THEN Outcome(st, Err(NotFound))
    ELSE LET loan == st.loans[sender]
             interest == Uint128MulDecimal(loan.amount_borrowed, loan.interest_rate)
             total_due == Uint128Add(loan.amount_borrowed, interest.val)
         IN  IF ~interest.ok
             THEN Outcome(st, Err(MulOverflowPanic))
             ELSE IF ~total_due.ok
             THEN Outcome(st, Err(AddOverflowPanic))
             ELSE IF amount <= total_due.val
             THEN Outcome(st, Err(InsufficientPayment))
             ELSE Outcome(
                    [st EXCEPT !.loans = MapRemove(@, sender)],
                    Ok(<< <<"action", "repay_loan">>,
                          <<"amount", ToString(amount)>>,
                          <<"interest_paid", ToString(interest.val)>> >>, <<>>))

\* variant: a missing loan is read as an empty one (may_load, default)
repay_loan_defaulting(st, sender, amount) ==
    LET loan == IF MapHas(st.loans, sender) THEN st.loans[sender] ELSE LoanInfo(0, 0, 0)
        interest == Uint128MulDecimal(loan.amount_borrowed, loan.interest_rate)
        total_due == Uint128Add(loan.amount_borrowed, interest.val)
    IN  IF ~interest.ok
        THEN Outcome(st, Err(MulOverflowPanic))
        ELSE IF ~total_due.ok
        THEN Outcome(st, Err(AddOverflowPanic))
        ELSE IF amount < total_due.val
        THEN Outcome(st, Err(InsufficientPayment))
        ELSE Outcome(
               [st EXCEPT !.loans = MapRemove(@, sender)],
               Ok(<< <<"action", "repay_loan">>,
                     <<"amount", ToString(amount)>>,
                     <<"interest_paid", ToString(interest.val)>> >>, <<>>))

\* variant: the loan record is removed before the payment is checked
repay_loan_removing_first(st, sender, amount) ==
    IF ~MapHas(st.loans, sender)
    THEN Outcome(st, Err(NotFound))
    ELSE LET loan == st.loans[sender]
             interest == Uint128MulDecimal(loan.amount_borrowed, loan.interest_rate)
             total_due == Uint128Add(loan.amount_borrowed, interest.val)
             removed == [st EXCEPT !.loans = MapRemove(@, sender)]
         IN  IF ~interest.ok
             THEN Outcome(st, Err(MulOverflowPanic))
             ELSE IF ~total_due.ok
             THEN Outcome(st, Err(AddOverflowPanic))
             ELSE IF amount < total_due.val
             THEN Outcome(removed, Err(InsufficientPayment))
             ELSE Outcome(
                    removed,
                    Ok(<< <<"action", "repay_loan">>,
                          <<"amount", ToString(amount)>>,
                          <<"interest_paid", ToString(interest.val)>> >>, <<>>))

\* variant: the interest reported is what was paid above the principal
repay_loan_reporting_surplus(st, sender, amount) ==
    IF ~MapHas(st.loans, sender)
    THEN Outcome(st, Err(NotFound))
    ELSE LET loan == st.loans[sender]
             interest == Uint128MulDecimal(loan.amount_borrowed, loan.interest_rate)
             total_due == Uint128Add(loan.amount_borrowed, interest.val)
         IN  IF ~interest.ok
             THEN Outcome(st, Err(MulOverflowPanic))
             ELSE IF ~total_due.ok
             THEN Outcome(st, Err(AddOverflowPanic))
             ELSE IF amount < total_due.val
             THEN Outcome(st, Err(InsufficientPayment))
             ELSE Outcome(
                    [st EXCEPT !.loans = MapRemove(@, sender)],
                    Ok(<< <<"action", "repay_loan">>,
                          <<"amount", ToString(amount)>>,
                          <<"interest_paid", ToString(amount - loan.amount_borrowed)>> >>, <<>>))

repay_loan(st, sender, amount) ==
    IF ~MapHas(st.loans, sender)
    THEN Outcome(st, Err(NotFound))
    ELSE LET loan == st.loans[sender]
             interest == Uint128MulDecimal(loan.amount_borrowed, loan.interest_rate)
             total_due == Uint128Add(loan.amount_borrowed, interest.val)
         IN  IF ~interest.ok
             THEN Outcome(st, Err(MulOverflowPanic))
             ELSE IF ~total_due.ok
             THEN Outcome(st, Err(AddOverflowPanic))
             ELSE IF amount < total_due.val
             THEN Outcome(st, Err(InsufficientPayment))
             ELSE Outcome(
                    [st EXCEPT !.loans = MapRemove(@, sender)],
                    Ok(<< <<"action", "repay_loan">>,
                          <<"amount", ToString(amount)>>,
                          <<"interest_paid", ToString(interest.val)>> >>, <<>>))

\* variant: the owner check is missing
update_interest_rate_open(st, sender, new_rate) ==
    Outcome(
      [st EXCEPT !.config.base_interest_rate = new_rate],
      Ok(<< <<"action", "update_interest_rate">>,
            <<"new_rate", ToString(new_rate)>> >>, <<>>))

update_interest_rate(st, sender, new_rate) ==
    IF sender # st.config.owner
    THEN Outcome(st, Err(Unauthorized))
    ELSE Outcome(
           [st EXCEPT !.config.base_interest_rate = new_rate],
           Ok(<< <<"action", "update_interest_rate">>,
                 <<"new_rate", ToString(new_rate)>> >>, <<>>))

\* ---------------------------------------------------------------- messages
Msg(type, token, amount, rate) ==
    [type |-> type, token_address |-> token, amount |-> amount, new_rate |-> rate]

\* the variants of enum ExecuteMsg
ExecuteMsg == {"deposit_collateral", "withdraw_collateral", "borrow", "repay_loan"}

execute(st, time, sender, msg) ==
    CASE msg.type = "deposit_collateral" ->
           deposit_collateral(st, sender, msg.token_address, msg.amount)
      [] msg.type = "withdraw_collateral" ->
           withdraw_collateral(st, sender, msg.token_address, msg.amount)
      [] msg.type = "borrow" -> borrow(st, time, sender, msg.amount)
      [] msg.type = "repay_loan" -> repay_loan(st, sender, msg.amount)
      [] OTHER -> Outcome(st, Err(UnknownVariant))

\* ---------------------------------------------------------------- state machine
Store == Storage(config, loans, collaterals)

Call(sender, msg, entry) ==
    /\ config' = entry.st.config
    /\ loans' = entry.st.loans
    /\ collaterals' = entry.st.collaterals
    /\ now' = now
    /\ last' = [sender |-> sender, msg |-> msg, res |-> entry.res]

NoCall == [sender |-> "", msg |-> Msg("instantiate", "", 0, 0),
           res |-> Ok(<< <<"method", "instantiate">> >>, <<>>)]

instantiate(owner, base_interest_rate) ==
    /\ config = Config(owner, base_interest_rate)
    /\ loans = << >>
    /\ collaterals = << >>

Init ==
    /\ \E owner \in Owners, rate \in InitRates : instantiate(owner, rate)
    /\ now = 0
    /\ last = NoCall

\* one call of execute, in a block of time now
Submit(sender, msg) == Call(sender, msg, execute(Store, now, sender, msg))

\* the messages a caller submits, by kind
DepositMsgs == {Msg("deposit_collateral", t, a, 0) : t \in Tokens, a \in DepositAmounts}
WithdrawMsgs == {Msg("withdraw_collateral", t, a, 0) : t \in Tokens, a \in WithdrawAmounts}
BorrowMsgs == {Msg("borrow", "", a, 0) : a \in BorrowAmounts}
RepayMsgs == {Msg("repay_loan", "", a, 0) : a \in RepayAmounts}
UpdateMsgs == {Msg("update_interest_rate", "", 0, r) : r \in Rates}

DepositCollateral ==
    \E sender \in Accounts, msg \in DepositMsgs : Submit(sender, msg)

WithdrawCollateral ==
    \E sender \in Accounts, msg \in WithdrawMsgs : Submit(sender, msg)

Borrow ==
    \E sender \in Accounts, msg \in BorrowMsgs : Submit(sender, msg)

RepayLoan ==
    \E sender \in Accounts, msg \in RepayMsgs : Submit(sender, msg)

\* a caller submits the UpdateInterestRate message to the entry point
UpdateInterestRate ==
    \E sender \in Accounts, msg \in UpdateMsgs : Submit(sender, msg)

\* the chain moves to a later block: env.block.time grows between calls
AdvanceTime ==
    /\ \E time \in Times : time > now /\ now' = time
    /\ UNCHANGED <<config, loans, collaterals, last>>

Next ==
    \/ DepositCollateral
    \/ WithdrawCollateral
    \/ Borrow
    \/ RepayLoan
    \/ UpdateInterestRate
    \/ AdvanceTime

Spec == Init /\ [][Next]_vars

\* the handler update_interest_rate called directly, as code of the module can
CallUpdateInterestRate ==
    \E sender \in Accounts, msg \in UpdateMsgs :
        Call(sender, msg, update_interest_rate(Store, sender, msg.new_rate))

NextHandlers ==
    \/ DepositCollateral
    \/ WithdrawCollateral
    \/ Borrow
    \/ RepayLoan
    \/ CallUpdateInterestRate
    \/ AdvanceTime

SpecHandlers == Init /\ [][NextHandlers]_vars

TypeOK ==
    /\ config \in [owner : Accounts, base_interest_rate : Rates]
    /\ DOMAIN loans \subseteq Accounts
    /\ DOMAIN collaterals \subseteq Accounts
    /\ \A a \in DOMAIN loans : loans[a].amount_borrowed \in 0..UintMax
    /\ \A a \in DOMAIN collaterals : collaterals[a].amount \in 0..UintMax
    /\ now \in Times

\* ---------------------------------------------------------------- properties
\* the call made by a step: its sender, message and result.  A step that is
\* a call leaves the block time alone, a step that is not changes it.
Sender == last'.sender
Request == last'.msg
Result == last'.res
Called(type) == now' = now /\ last'.msg.type = type
StoreUnchanged == UNCHANGED <<config, loans, collaterals>>

\* the value of attribute key of a response
AttrOf(res, key) ==
    LET i == CHOOSE i \in 1..Len(res.attrs) : res.attrs[i][1] = key IN res.attrs[i][2]

\* interest and total due of a loan, in unbounded integers
ExactInterest(loan) == (loan.amount_borrowed * loan.interest_rate) \div 100
ExactTotalDue(loan) == loan.amount_borrowed + ExactInterest(loan)

\* C1: in every reachable state every collateral record has amount > 0, so an
\* account has a record exactly when its stored amount is positive.
C1_CollateralRecordPositive ==
    \A a \in DOMAIN collaterals : collaterals[a].amount > 0

\* a partial withdrawal has left a record with a positive remainder
C1_Witness ==
    /\ last.msg.type = "withdraw_collateral"
    /\ IsOk(last.res)
    /\ last.msg.amount = 1
    /\ MapHas(collaterals, last.sender)
    /\ collaterals[last.sender].amount = 1

\* C2: in every reachable state every loan record has amount_borrowed > 0.
C2_LoanRecordPositive ==
    \A a \in DOMAIN loans : loans[a].amount_borrowed > 0

\* C3 as stated: for an account with a loan record, RepayLoan(amount) fails
\* with InsufficientPayment and leaves the loan unchanged exactly when
\* amount < amount_borrowed + floor(amount_borrowed * interest_rate).
C3_RepayRejectedIffBelowTotalDue ==
    [][(Called("repay_loan") /\ MapHas(loans, Sender)) =>
         ((Result.err = InsufficientPayment /\ loans' = loans)
            <=> Request.amount < ExactTotalDue(loans[Sender]))]_vars

\* What RepayLoan does instead of C3: when the total due fits the integer
\* width, it fails with InsufficientPayment exactly when amount < total_due,
\* and an accepted payment deletes the record; when the total due does not
\* fit, it aborts with an overflow panic.  The loan record is unchanged in
\* both failures.
C3_RepayRejectedIffBelowTotalDueThatFits ==
    [][(Called("repay_loan") /\ MapHas(loans, Sender)) =>
         LET due == ExactTotalDue(loans[Sender]) IN
         /\ due <= UintMax =>
              /\ (Result.err = InsufficientPayment) <=> (Request.amount < due)
              /\ Request.amount < due => loans' = loans
              /\ Request.amount >= due => IsOk(Result) /\ ~MapHas(loans', Sender)
         /\ due > UintMax => Result.err \in Panics /\ loans' = loans]_vars

\* a payment of 1049 against a principal of 1000 at 5% has been rejected
C3_Witness ==
    /\ last.msg.type = "repay_loan"
    /\ last.msg.amount = 1049
    /\ last.res.err = InsufficientPayment
    /\ MapHas(loans, last.sender)
    /\ loans[last.sender].amount_borrowed = 1000
    /\ loans[last.sender].interest_rate = 5

\* C4: WithdrawCollateral fails with NotFound when the caller has no record,
\* with InvalidState when the stored token differs from the requested one or
\* the stored amount is below the requested one; every failing withdrawal
\* leaves the collateral map unchanged.
C4_WithdrawFailures ==
    [][Called("withdraw_collateral") =>
         /\ ~MapHas(collaterals, Sender) => Result.err = NotFound
         /\ (MapHas(collaterals, Sender)
               /\ (collaterals[Sender].token_address # Request.token_address
                     \/ collaterals[Sender].amount < Request.amount))
              => Result.err = InvalidState
         /\ ~IsOk(Result) => collaterals' = collaterals]_vars

\* a withdrawal of a sufficient amount of the wrong token has been rejected
C4_Witness ==
    /\ last.msg.type = "withdraw_collateral"
    /\ last.res.err = InvalidState
    /\ MapHas(collaterals, last.sender)
    /\ collaterals[last.sender].token_address # last.msg.token_address
    /\ collaterals[last.sender].amount >= last.msg.amount

\* C5: DepositCollateral with amount 0 fails with InvalidAmount and leaves the
\* store, the caller's collateral record included, unchanged.
C5_DepositZeroRejected ==
    [][(Called("deposit_collateral") /\ Request.amount = 0) =>
         Result.err = InvalidAmount /\ StoreUnchanged]_vars

\* a zero deposit by an account that holds a record has been rejected
C5_Witness ==
    /\ last.msg.type = "deposit_collateral"
    /\ last.msg.amount = 0
    /\ last.res.err = InvalidAmount
    /\ MapHas(collaterals, last.sender)

\* C6: when a successful DepositCollateral(T, n) is followed at once by
\* WithdrawCollateral(T, n) of the same account, the withdrawal succeeds and
\* the account has no collateral record.
C6_DepositThenWithdrawRemoves ==
    [][(/\ last.msg.type = "deposit_collateral"
        /\ IsOk(last.res)
        /\ Called("withdraw_collateral")
        /\ Sender = last.sender
        /\ Request.token_address = last.msg.token_address
        /\ Request.amount = last.msg.amount) =>
         IsOk(Result) /\ ~MapHas(collaterals', Sender)]_vars

\* a withdrawal of the deposited amount has removed the record
C6_Witness ==
    /\ last.msg.type = "withdraw_collateral"
    /\ IsOk(last.res)
    /\ last.msg.amount = 2
    /\ ~MapHas(collaterals, last.sender)

\* C7: RepayLoan of an account with no loan record fails with NotFound and
\* leaves the store unchanged; a RepayLoan right after a successful one of the
\* same account fails with NotFound.
C7_RepayWithoutLoanNotFound ==
    [][Called("repay_loan") =>
         /\ ~MapHas(loans, Sender) => Result.err = NotFound /\ StoreUnchanged
         /\ (last.msg.type = "repay_loan" /\ IsOk(last.res) /\ last.sender = Sender)
              => Result.err = NotFound]_vars

\* a repayment by an account without a loan has been rejected
C7_Witness ==
    /\ last.msg.type = "repay_loan"
    /\ last.res.err = NotFound
    /\ ~MapHas(loans, last.sender)

C9_UpdateThroughExecute ==
    [][(Called("update_interest_rate") /\ Sender = config.owner) =>
         IsOk(Result) /\ config'.base_interest_rate = Request.new_rate]_vars

\* C10: a RepayLoan whose interest or total due does not fit the integer
\* width is rejected with the store unchanged; an accepted RepayLoan covers
\* the exact total due and reports the exact interest; a Borrow stores the
\* requested amount; a withdrawal stores the exact difference; every stored
\* amount is within the integer range.
C10_ArithmeticFailsClosed ==
    [][/\ (Called("repay_loan") /\ MapHas(loans, Sender)) =>
            /\ (ExactInterest(loans[Sender]) > UintMax
                  \/ ExactTotalDue(loans[Sender]) > UintMax)
                 => ~IsOk(Result) /\ StoreUnchanged
            /\ IsOk(Result) =>
                 /\ Request.amount >= ExactTotalDue(loans[Sender])
                 /\ AttrOf(Result, "interest_paid") = ToString(ExactInterest(loans[Sender]))
       /\ (Called("borrow") /\ IsOk(Result)) =>
            loans'[Sender].amount_borrowed = Request.amount
       /\ (Called("withdraw_collateral") /\ IsOk(Result) /\ MapHas(collaterals', Sender)) =>
            collaterals'[Sender].amount = collaterals[Sender].amount - Request.amount
       /\ \A a \in DOMAIN loans' : loans'[a].amount_borrowed \in 0..UintMax
       /\ \A a \in DOMAIN collaterals' : collaterals'[a].amount \in 0..UintMax]_vars

\* a repayment of a loan whose total due does not fit has been aborted
C10_Witness ==
    /\ last.msg.type = "repay_loan"
    /\ last.res.err = AddOverflowPanic
    /\ MapHas(loans, last.sender)
    /\ ExactTotalDue(loans[last.sender]) > UintMax

\* the record of an account in a map, as a set with at most one element
RecordOf(m, a) == IF MapHas(m, a) THEN {m[a]} ELSE {}

\* a step that is a call of the contract
IsCall == now' = now

\* C11: a call that returns an error, or aborts, leaves Config, every
\* collateral record and every loan record as they were and emits no payout
\* instruction.
C11_ErrorLeavesStateUnchanged ==
    [][(IsCall /\ ~IsOk(Result)) => (StoreUnchanged /\ Result.msgs = << >>)]_vars

\* a repayment below the total due has been rejected while the caller holds a
\* loan and a collateral record
C11_Witness ==
    /\ last.msg.type = "repay_loan"
    /\ last.res.err = InsufficientPayment
    /\ MapHas(loans, last.sender)
    /\ MapHas(collaterals, last.sender)

\* C12: a call of account A leaves the collateral record and the loan record
\* of every other account as they were.
C12_OtherAccountsUntouched ==
    [][IsCall =>
         \A b \in Accounts \ {Sender} :
            /\ RecordOf(collaterals', b) = RecordOf(collaterals, b)
            /\ RecordOf(loans', b) = RecordOf(loans, b)]_vars

\* an account has borrowed while the other account holds a loan and a
\* collateral record
C12_Witness ==
    /\ last.msg.type = "borrow"
    /\ IsOk(last.res)
    /\ \E b \in Accounts \ {last.sender} : MapHas(loans, b) /\ MapHas(collaterals, b)

\* C13: Borrow(amount) succeeds, sets the caller's loan record to
\* (amount, 5%, current block time) whatever record was there and whatever the
\* base rate is, and emits exactly one payout of amount to the caller.
C13_BorrowStoresAndPays ==
    [][Called("borrow") =>
         /\ IsOk(Result)
         /\ MapHas(loans', Sender)
         /\ loans'[Sender] = [amount_borrowed |-> Request.amount,
                              interest_rate |-> 5,
                              loan_start_time |-> now]
         /\ Result.msgs = << [to_address |-> Sender,
                              amount |-> Request.amount,
                              denom |-> "usdc"] >>]_vars

\* a loan of 1000 taken at block time 1 under a base rate of 10%
C13_Witness ==
    /\ last.msg.type = "borrow"
    /\ last.msg.amount = 1000
    /\ IsOk(last.res)
    /\ now = 1
    /\ config.base_interest_rate = 10
    /\ MapHas(loans, last.sender)
    /\ loans[last.sender].loan_start_time = 1
    /\ loans[last.sender].interest_rate = 5

\* C14: after a successful DepositCollateral(token_address, amount) the
\* caller's record is exactly (token_address, amount), whatever was stored.
C14_DepositReplaces ==
    [][(Called("deposit_collateral") /\ IsOk(Result)) =>
         /\ MapHas(collaterals', Sender)
         /\ collaterals'[Sender] = [token_address |-> Request.token_address,
                                    amount |-> Request.amount]]_vars

\* a deposit of 2 of token B is on record
C14_Witness ==
    /\ last.msg.type = "deposit_collateral"
    /\ IsOk(last.res)
    /\ last.msg.token_address = "B"
    /\ MapHas(collaterals, last.sender)
    /\ collaterals[last.sender] = [token_address |-> "B", amount |-> 2]

\* C15 as stated: a successful withdrawal of less than the stored amount keeps
\* the record with the same token and the difference, one of the whole stored
\* amount deletes the record, and a withdrawal of amount 0 from an existing
\* record succeeds and leaves the record unchanged.
C15_WithdrawEffect ==
    [][(Called("withdraw_collateral") /\ MapHas(collaterals, Sender)) =>
         LET stored == collaterals[Sender] IN
         /\ (IsOk(Result) /\ Request.amount < stored.amount) =>
              /\ MapHas(collaterals', Sender)
              /\ collaterals'[Sender] = [token_address |-> stored.token_address,
                                         amount |-> stored.amount - Request.amount]
         /\ (IsOk(Result) /\ Request.amount = stored.amount) =>
              ~MapHas(collaterals', Sender)
         /\ Request.amount = 0 =>
              IsOk(Result) /\ collaterals' = collaterals]_vars

\* C15 amended: as stated, but the withdrawal of amount 0 succeeds when it
\* names the stored token; one that names another token fails with
\* InvalidState.  The record is unchanged in both cases.
C15_WithdrawEffectOfStoredToken ==
    [][(Called("withdraw_collateral") /\ MapHas(collaterals, Sender)) =>
         LET stored == collaterals[Sender] IN
         /\ (IsOk(Result) /\ Request.amount < stored.amount) =>
              /\ MapHas(collaterals', Sender)
              /\ collaterals'[Sender] = [token_address |-> stored.token_address,
                                         amount |-> stored.amount - Request.amount]
         /\ (IsOk(Result) /\ Request.amount = stored.amount) =>
              ~MapHas(collaterals', Sender)
         /\ Request.amount = 0 =>
              /\ collaterals' = collaterals
              /\ Request.token_address = stored.token_address => IsOk(Result)
              /\ Request.token_address # stored.token_address =>
                   Result.err = InvalidState]_vars

\* a withdrawal of amount 0 of the stored token has succeeded and the record
\* is still there
C15_Witness ==
    /\ last.msg.type = "withdraw_collateral"
    /\ last.msg.amount = 0
    /\ IsOk(last.res)
    /\ MapHas(collaterals, last.sender)
    /\ collaterals[last.sender].token_address = last.msg.token_address
    /\ collaterals[last.sender].amount = 2

\* C16: a RepayLoan(amount) with amount >= total_due succeeds, deletes the
\* caller's loan record, emits no message and reports
\* interest_paid = floor(amount_borrowed * interest_rate).
C16_RepayClosesLoan ==
    [][(/\ Called("repay_loan")
        /\ MapHas(loans, Sender)
        /\ Request.amount >= ExactTotalDue(loans[Sender])) =>
         /\ IsOk(Result)
         /\ ~MapHas(loans', Sender)
         /\ Result.msgs = << >>
         /\ AttrOf(Result, "interest_paid") = ToString(ExactInterest(loans[Sender]))]_vars

\* an overpayment of a loan of 1000 has been accepted with interest 50 reported
C16_Witness ==
    /\ last.msg.type = "repay_loan"
    /\ last.msg.amount = UintMax
    /\ IsOk(last.res)
    /\ last.res.msgs = << >>
    /\ AttrOf(last.res, "interest_paid") = "50"
    /\ ~MapHas(loans, last.sender)

\* C17: in every reachable state an account that has a loan record has a
\* collateral record.
C17_LoanImpliesCollateral ==
    \A a \in DOMAIN loans : MapHas(collaterals, a)

\* C18: DepositCollateral and WithdrawCollateral succeed or fail by the message
\* and the caller's collateral record alone and leave the loans and Config
\* unchanged; Borrow and RepayLoan succeed or fail by the message and the
\* caller's loan record alone and leave the collaterals and Config unchanged.
C18_CollateralAndLoanIndependent ==
    [][/\ Called("deposit_collateral") =>
            /\ IsOk(Result) <=> Request.amount # 0
            /\ loans' = loans /\ config' = config
       /\ Called("withdraw_collateral") =>
            /\ IsOk(Result) <=>
                 /\ MapHas(collaterals, Sender)
                 /\ collaterals[Sender].token_address = Request.token_address
                 /\ collaterals[Sender].amount >= Request.amount
            /\ loans' = loans /\ config' = config
       /\ Called("borrow") =>
            /\ IsOk(Result)
            /\ collaterals' = collaterals /\ config' = config
       /\ Called("repay_loan") =>
            /\ IsOk(Result) <=>
                 /\ MapHas(loans, Sender)
                 /\ Request.amount >= ExactTotalDue(loans[Sender])
            /\ collaterals' = collaterals /\ config' = config]_vars

\* an account with a loan has withdrawn all of its collateral
C18_Witness ==
    /\ last.msg.type = "withdraw_collateral"
    /\ IsOk(last.res)
    /\ last.msg.amount = 2
    /\ MapHas(loans, last.sender)
    /\ ~MapHas(collaterals, last.sender)

\* C19: for every loan record there is an amount of the integer range whose
\* RepayLoan succeeds.
C19_EveryLoanRepayable ==
    \A a \in DOMAIN loans :
       \E amount \in 0..UintMax : IsOk(repay_loan(Store, a, amount).res)

====
